---------------------------- MODULE Spec2Model ----------------------------
(***************************************************************************)
(* Model of blueprints/frontend.py: the login, registration, logout and    *)
(* profile handlers of the web frontend, the user/statistics tables they   *)
(* read, the per-client session and the shared bcrypt credential cache.    *)
(*                                                                         *)
(* Strings are sequences of one-character strings.  Every handler is cut   *)
(* at its awaits on the store: one action runs the handler from one        *)
(* suspension point to the next (or to its response).  Each client has at  *)
(* most one request in flight; requests of different clients interleave.   *)
(* A lookup and the handler's resumption with its row are one step: no     *)
(* handler writes the users table (register_post raises NameError at line  *)
(* 233 before its inserts), so the row is the same at both moments, and    *)
(* the cache and the session are read when the handler resumes.            *)
(***************************************************************************)
EXTENDS Integers, Sequences, FiniteSets, TLC

\* number of concurrent clients (each with its own session)
NumClients == 2

Clients == 1..NumClients

\* number of requests the clients send in one run
MaxRequests == 3

(***************************************************************************)
(* Characters and strings                                                  *)
(***************************************************************************)
Chars(s) == {s[i] : i \in 1..Len(s)}

Letters == {"a", "b", "c", "d", "e", "l", "m", "n", "o", "p", "t", "y", "z",
            "A", "B", "E", "M", "N", "Z"}
Digits == {"0", "1"}
Whitespace == {" ", "\n"}

\* str.lower() on one character
LowerChar(ch) ==
    CASE ch = "A" -> "a" [] ch = "B" -> "b" [] ch = "E" -> "e"
      [] ch = "M" -> "m" [] ch = "N" -> "n" [] ch = "Z" -> "z"
      [] OTHER -> ch

Lower(s) == [i \in 1..Len(s) |-> LowerChar(s[i])]

\* objects.utils.get_safe_name: lowercase, spaces become underscores
get_safe_name(name) ==
    [i \in 1..Len(name) |->
        IF name[i] = " " THEN "_" ELSE LowerChar(name[i])]

\* re `$` also matches just before one trailing newline
BeforeDollar(s) ==
    IF Len(s) > 0 /\ s[Len(s)] = "\n" THEN {s, SubSeq(s, 1, Len(s) - 1)}
    ELSE {s}

\* _username_rgx = ^[\w \[\]-]{2,15}$
UsernameChar(ch) == ch \in Letters \cup Digits \cup {"_", " ", "[", "]", "-"}

username_rgx(s) ==
    \E t \in BeforeDollar(s) :
        /\ Len(t) >= 2
        /\ Len(t) <= 15
        /\ \A i \in 1..Len(t) : UsernameChar(t[i])

\* _email_rgx = ^[^@\s]{1,200}@[^@\s\.]{1,30}\.[^@\.\s]{1,24}$
email_rgx(s) ==
    \E t \in BeforeDollar(s) :
        \E i, j \in 1..Len(t) :
            /\ t[i] = "@"
            /\ t[j] = "."
            /\ i - 1 >= 1 /\ i - 1 <= 200
            /\ j - i - 1 >= 1 /\ j - i - 1 <= 30
            /\ Len(t) - j >= 1 /\ Len(t) - j <= 24
            /\ \A k \in 1..(i - 1) : t[k] \notin {"@"} \cup Whitespace
            /\ \A k \in (i + 1)..(j - 1) : t[k] \notin {"@", "."} \cup Whitespace
            /\ \A k \in (j + 1)..Len(t) : t[k] \notin {"@", "."} \cup Whitespace

(***************************************************************************)
(* Privileges (objects.privileges)                                         *)
(***************************************************************************)
RECURSIVE BitAnd(_, _)
BitAnd(a, b) ==
    IF a = 0 \/ b = 0 THEN 0
    ELSE (a % 2) * (b % 2) + 2 * BitAnd(a \div 2, b \div 2)

Normal == 1
Verified == 2
Staff == 28672

\* the reserved account login_post refuses (line 108)
ReservedId == 1
\* the privilege value below which profile hides an account (line 65)
PrivThreshold == 3

valid_modes == {<<"s","t","d">>, <<"t","a","i","k","o">>,
                <<"c","a","t","c","h">>, <<"m","a","n","i","a">>}
valid_mods == {<<"v","n">>, <<"r","x">>, <<"a","p">>}

(***************************************************************************)
(* Password digests and hashes                                             *)
(***************************************************************************)
\* hashlib.md5(pw.encode()).hexdigest().encode(): one digest per password
Md5(pw) == [md5 |-> pw]

\* a bcrypt hash carries its salt and commits to one digest
Bcrypt(salt, digest) == [valid |-> TRUE, salt |-> salt, digest |-> digest]

\* bcrypt.checkpw(digest, hash)
checkpw(digest, hash) == hash.valid /\ hash.digest = digest


(***************************************************************************)
(* Configuration (glob.config) and the store at start-up                   *)
(***************************************************************************)
disallowed_names == {<<"b", "o", "t">>}
disallowed_passwords == {<<"p", "a", "s", "s", "w", "o", "r", "d", "1">>}

Rep(ch, n) == [i \in 1..n |-> ch]

\* display names, emails and passwords used as inputs
NameAl == <<"A", "l">>
NameAlLower == <<"a", "l">>
NameBo == <<"B", "o">>
NameEd == <<"E", "d">>
NameNy == <<"N", "y">>
NameMo == <<"M", "o">>
NameZz == <<"Z", "z">>
NameZed == <<"Z", "e", "d">>
NameZ == <<"Z">>
NameBoth == <<"a", "_", " ", "b">>
NameBot == <<"b", "o", "t">>

EmailAl == <<"a", "@", "b", ".", "c">>
EmailNew == <<"n", "@", "b", ".", "c">>
EmailBad == <<"a", "b", ".", "c">>

PwA == <<"p", "w", "A">>
PwB == <<"p", "w", "B">>

PwLen8 == <<"a", "b", "c", "d">> \o Rep("a", 4)
PwLen9 == <<"a", "b", "c", "d">> \o Rep("a", 5)
PwLen32 == <<"a", "b", "c", "d">> \o Rep("a", 28)
PwLen33 == <<"a", "b", "c", "d">> \o Rep("a", 29)
PwThreeDistinct == <<"a", "b", "c">> \o Rep("a", 6)
PwDenied == <<"P", "a", "s", "s", "w", "o", "r", "d", "1">>

InvalidHash == [valid |-> FALSE, salt |-> 0, digest |-> Md5(<<>>)]

UserRow(id, name, email, hash, priv) ==
    [id |-> id, name |-> name, safe_name |-> get_safe_name(name),
     email |-> email, pw_bcrypt |-> hash, priv |-> priv, silence_end |-> 0]

\* the users table: the reserved account, a verified player, an unverified
\* one, a banned one and a staff member
InitUsers ==
    { UserRow(ReservedId, NameBo, <<"o", "@", "b", ".", "c">>, InvalidHash, Normal + Verified),
      UserRow(3, NameAl, EmailAl, Bcrypt(3, Md5(PwA)), Normal + Verified),
      UserRow(4, NameEd, <<"e", "@", "b", ".", "c">>, Bcrypt(4, Md5(PwA)), Normal),
      UserRow(5, NameNy, <<"y", "@", "b", ".", "c">>, Bcrypt(5, Md5(PwA)), Verified),
      UserRow(6, NameMo, <<"m", "@", "b", ".", "c">>, Bcrypt(6, Md5(PwA)), Normal + Verified + 4096) }


\* form data submitted to POST /login
LoginForms ==
    { [op |-> "login", username |-> u, password |-> PwA] :
        u \in {NameAl, NameBo, NameEd, NameNy, NameMo, NameZz} }
    \cup
    { [op |-> "login", username |-> u, password |-> PwB] :
        u \in {NameAlLower, NameBo} }

RegForm(u, e, p) == [op |-> "register", username |-> u, email |-> e, password |-> p]

\* form data submitted to POST /register
RegForms ==
    { RegForm(NameAl, EmailNew, PwLen9),
      RegForm(NameZed, EmailAl, PwLen9),
      RegForm(NameZ, EmailAl, PwLen9),
      RegForm(NameBoth, EmailAl, PwLen9),
      RegForm(NameBot, EmailNew, PwLen9),
      RegForm(NameZed, EmailBad, PwLen9),
      RegForm(NameZed, EmailNew, PwLen8),
      RegForm(NameZed, EmailNew, PwLen9),
      RegForm(NameZed, EmailNew, PwLen32),
      RegForm(NameZed, EmailNew, PwLen33),
      RegForm(NameZed, EmailNew, PwThreeDistinct),
      RegForm(NameZed, EmailNew, PwDenied) }

\* path and query arguments of GET /u/<user>; <<>> is an absent argument
ProfileArgs ==
    { [op |-> "profile", user |-> u, mode |-> <<>>, mods |-> <<>>] :
        u \in {3, 4, 9} }
    \cup
    { [op |-> "profile", user |-> 4, mode |-> <<"s","t","d">>, mods |-> <<"r","x">>],
      [op |-> "profile", user |-> 4, mode |-> <<"x">>, mods |-> <<"r","x">>],
      [op |-> "profile", user |-> 4, mode |-> <<"x">>, mods |-> <<"x">>] }

(***************************************************************************)
(* State                                                                   *)
(***************************************************************************)
VARIABLES
    users,         \* the users table
    stats,         \* the stats table (ids)
    registration,  \* glob.config.registration
    cache,         \* glob.cache['bcrypt']: hash -> digest
    session,       \* per client: the session keys
    pc,            \* per client: where its handler is suspended
    form,          \* per client: the request being handled
    resp,          \* the last response sent
    lastLogin,     \* the login_post that answered last
    nreq           \* requests received so far

vars == <<users, stats, registration, cache, session, pc, form, resp, lastLogin, nreq>>

NoUserData == [id |-> 0, name |-> <<>>, priv |-> 0, silence_end |-> 0, is_staff |-> 0]

\* a session holding neither 'authenticated' nor 'user_data'
EmptySession == [authenticated |-> FALSE, user_data |-> NoUserData]

NoForm == [op |-> "none"]
NoResp == [op |-> "none", kind |-> "none", path |-> "none", user |-> 0]
NoLogin == [account |-> <<>>, password |-> <<>>, kind |-> "none", path |-> "none"]
NoRow == UserRow(0, <<>>, <<>>, InvalidHash, 0)

\* a response: the handler, the page or error it carries, how a login
\* checked the password, and the account a profile page shows
Response(op, kind, path) == [op |-> op, kind |-> kind, path |-> path, user |-> 0]

Init ==
    /\ users = InitUsers
    /\ stats = {u.id : u \in InitUsers}
    /\ registration \in BOOLEAN
    /\ cache = <<>>
    /\ session = [c \in Clients |-> EmptySession]
    /\ pc = [c \in Clients |-> "idle"]
    /\ form = [c \in Clients |-> NoForm]
    /\ resp = NoResp
    /\ lastLogin = NoLogin
    /\ nreq = 0

\* glob.db.fetch: one matching row, or none
Fetch(rows) == IF rows = {} THEN {NoRow} ELSE rows

(***************************************************************************)
(* login                                                                   *)
(***************************************************************************)
\* PasswordCheck without line 132: a verified password is not cached
PasswordCheckNoStore(info, password, bcrypt_cache) ==
    LET pw_bcrypt == info.pw_bcrypt
        pw_md5 == Md5(password)
    IN  IF pw_bcrypt \in DOMAIN bcrypt_cache
        THEN [ok |-> pw_md5 = bcrypt_cache[pw_bcrypt], path |-> "cache",
              cache |-> bcrypt_cache]
        ELSE [ok |-> checkpw(pw_md5, pw_bcrypt), path |-> "bcrypt",
              cache |-> bcrypt_cache]

\* PasswordCheck with line 132 moved above the bcrypt check: the submitted
\* digest is cached whether or not it verifies
PasswordCheckStoreFirst(info, password, bcrypt_cache) ==
    LET pw_bcrypt == info.pw_bcrypt
        pw_md5 == Md5(password)
    IN  IF pw_bcrypt \in DOMAIN bcrypt_cache
        THEN [ok |-> pw_md5 = bcrypt_cache[pw_bcrypt], path |-> "cache",
              cache |-> bcrypt_cache]
        ELSE [ok |-> checkpw(pw_md5, pw_bcrypt), path |-> "bcrypt",
              cache |-> (pw_bcrypt :> pw_md5) @@ bcrypt_cache]

\* lines 113-132: the password check, through the cache or through bcrypt
PasswordCheck(info, password, bcrypt_cache) ==
    LET pw_bcrypt == info.pw_bcrypt
        pw_md5 == Md5(password)
    IN  IF pw_bcrypt \in DOMAIN bcrypt_cache
        THEN [ok |-> pw_md5 = bcrypt_cache[pw_bcrypt], path |-> "cache",
              cache |-> bcrypt_cache]
        ELSE IF checkpw(pw_md5, pw_bcrypt)
             THEN [ok |-> TRUE, path |-> "bcrypt",
                   cache |-> (pw_bcrypt :> pw_md5) @@ bcrypt_cache]
             ELSE [ok |-> FALSE, path |-> "bcrypt", cache |-> bcrypt_cache]

\* line 108 without its second test: the reserved account is not refused
AccountFoundAnyId(info) == info # NoRow

\* line 108: a row was fetched and it is not the reserved account
AccountFound(info) == ~(info = NoRow \/ info.id = ReservedId)

\* lines 108-144: the outcome of a login once the row is fetched
LoginKind(info, pw_ok) ==
    IF ~AccountFound(info) THEN "AccountNotFound"
    ELSE IF ~pw_ok THEN "BadPassword"
    ELSE IF BitAnd(info.priv, Verified) = 0 THEN "NotVerified"
    ELSE IF BitAnd(info.priv, Normal) = 0 THEN "Banned"
    ELSE "Success"

\* lines 150-157
SessionFor(info) ==
    [authenticated |-> TRUE,
     user_data |-> [id |-> info.id, name |-> info.name, priv |-> info.priv,
                    silence_end |-> info.silence_end,
                    is_staff |-> BitAnd(info.priv, Staff)]]

\* lines 88-96: the already-authenticated gate, then the form is read
login_post(c, f) ==
    /\ pc[c] = "idle"
    /\ nreq < MaxRequests
    /\ nreq' = nreq + 1
    /\ IF session[c].authenticated
       THEN /\ resp' = Response("login", "AlreadyAuthenticated", "none")
            /\ lastLogin' = [account |-> get_safe_name(f.username),
                             password |-> f.password,
                             kind |-> "AlreadyAuthenticated", path |-> "none"]
            /\ UNCHANGED <<pc, form>>
       ELSE /\ pc' = [pc EXCEPT ![c] = "login_fetch"]
            /\ form' = [form EXCEPT ![c] = f]
            /\ UNCHANGED resp
            /\ UNCHANGED lastLogin
    /\ UNCHANGED <<users, stats, registration, cache, session>>

\* lines 99-164: the row arrives and the handler runs to its response
login_fetched(c) ==
    /\ pc[c] = "login_fetch"
    /\ \E user_info \in Fetch({r \in users : r.safe_name = get_safe_name(form[c].username)}) :
        LET chk == IF AccountFound(user_info)
                   THEN PasswordCheck(user_info, form[c].password, cache)
                   ELSE [ok |-> FALSE, path |-> "none", cache |-> cache]
            kind == LoginKind(user_info, chk.ok)
        IN  /\ cache' = chk.cache
            /\ session' = IF kind = "Success"
                          THEN [session EXCEPT ![c] = SessionFor(user_info)]
                          ELSE session
            /\ resp' = Response("login", kind, chk.path)
            /\ lastLogin' = [account |-> get_safe_name(form[c].username),
                             password |-> form[c].password,
                             kind |-> kind, path |-> chk.path]
    /\ pc' = [pc EXCEPT ![c] = "idle"]
    /\ form' = [form EXCEPT ![c] = NoForm]
    /\ UNCHANGED <<nreq, users, stats, registration>>

(***************************************************************************)
(* logout                                                                  *)
(***************************************************************************)
\* logout without line 283: 'user_data' stays in the session
logoutKeepsUserData(c) ==
    /\ pc[c] = "idle"
    /\ nreq < MaxRequests
    /\ nreq' = nreq + 1
    /\ IF ~session[c].authenticated
       THEN /\ resp' = Response("logout", "NotAuthenticated", "none")
            /\ UNCHANGED session
       ELSE /\ session' = [session EXCEPT ![c].authenticated = FALSE]
            /\ resp' = Response("logout", "LoggedOut", "none")
    /\ UNCHANGED <<users, stats, registration, cache, pc, form, lastLogin>>

\* lines 274-286
logout(c) ==
    /\ pc[c] = "idle"
    /\ nreq < MaxRequests
    /\ nreq' = nreq + 1
    /\ IF ~session[c].authenticated
       THEN /\ resp' = Response("logout", "NotAuthenticated", "none")
            /\ UNCHANGED session
       ELSE /\ session' = [session EXCEPT ![c] = EmptySession]
            /\ resp' = Response("logout", "LoggedOut", "none")
    /\ UNCHANGED <<users, stats, registration, cache, pc, form, lastLogin>>

(***************************************************************************)
(* registration                                                            *)
(***************************************************************************)
\* lines 202-209: the username checks made before the store is asked
UsernameCheck(username) ==
    IF ~username_rgx(username) THEN "InvalidSyntax"
    ELSE IF "_" \in Chars(username) /\ " " \in Chars(username) THEN "AmbiguousSeparator"
    ELSE IF username \in disallowed_names THEN "Disallowed"
    ELSE "ok"

\* lines 227-234: the password checks.  Line 233 reads the name pw_text,
\* which is bound nowhere (the form value is pw_txt): a password that gets
\* past the length and distinct-character checks raises NameError there.
PasswordPolicy(pw_txt) ==
    IF ~(8 < Len(pw_txt) /\ Len(pw_txt) <= 32) THEN "TooShortOrLong"
    ELSE IF Cardinality(Chars(pw_txt)) <= 3 THEN "TooSimple"
    ELSE "NameError"

\* line 211: SELECT 1 FROM users WHERE name = %s
NameRows(username, tbl) == {r \in tbl : r.name = username}

\* line 220 asking for the wrong column
EmailRowsByName(email, tbl) == {r \in tbl : r.name = email}

\* line 220: SELECT 1 FROM users WHERE email = %s
EmailRows(email, tbl) == {r \in tbl : r.email = email}

\* lines 181-209: the gates, the form, the username checks
register_post(c, f) ==
    /\ pc[c] = "idle"
    /\ nreq < MaxRequests
    /\ nreq' = nreq + 1
    /\ LET kind == IF session[c].authenticated THEN "AlreadyAuthenticated"
                   ELSE IF ~registration THEN "RegistrationDisabled"
                   ELSE UsernameCheck(f.username)
       IN  IF kind = "ok"
           THEN /\ pc' = [pc EXCEPT ![c] = "reg_name"]
                /\ form' = [form EXCEPT ![c] = f]
                /\ UNCHANGED resp
           ELSE /\ resp' = Response("register", kind, "none")
                /\ UNCHANGED <<pc, form>>
    /\ UNCHANGED <<users, stats, registration, cache, session, lastLogin>>

\* lines 211-218: the name lookup returns, then the email syntax check
register_name_fetched(c) ==
    /\ pc[c] = "reg_name"
    /\ \E row \in Fetch(NameRows(form[c].username, users)) :
        LET kind == IF row # NoRow THEN "Taken"
                    ELSE IF ~email_rgx(form[c].email) THEN "InvalidSyntax"
                    ELSE "ok"
        IN  IF kind = "ok"
            THEN /\ pc' = [pc EXCEPT ![c] = "reg_email"]
                 /\ UNCHANGED <<form, resp>>
            ELSE /\ pc' = [pc EXCEPT ![c] = "idle"]
                 /\ form' = [form EXCEPT ![c] = NoForm]
                 /\ resp' = Response("register", kind, "none")
    /\ UNCHANGED <<nreq, users, stats, registration, cache, session, lastLogin>>

\* lines 220-234: the email lookup returns, then the password checks; no
\* request gets past line 233, so lines 236-270 never run
register_email_fetched(c) ==
    /\ pc[c] = "reg_email"
    /\ \E row \in Fetch(EmailRows(form[c].email, users)) :
        LET kind == IF row # NoRow THEN "Taken"
                    ELSE PasswordPolicy(form[c].password)
        IN  resp' = Response("register", kind, "none")
    /\ pc' = [pc EXCEPT ![c] = "idle"]
    /\ form' = [form EXCEPT ![c] = NoForm]
    /\ UNCHANGED <<nreq, users, stats, registration, cache, session, lastLogin>>

(***************************************************************************)
(* profile                                                                 *)
(***************************************************************************)
\* lines 64-66 without the Staff test of line 66
ProfileHiddenFromStaff(userdata, sess) ==
    \/ userdata = NoRow
    \/ userdata.priv < PrivThreshold

\* lines 64-66: is the account hidden from this viewer
ProfileHidden(userdata, sess) ==
    \/ userdata = NoRow
    \/ /\ userdata # NoRow
       /\ userdata.priv < PrivThreshold
       /\ ~sess.authenticated
    \/ /\ userdata # NoRow
       /\ userdata.priv < PrivThreshold
       /\ sess.authenticated
       /\ BitAnd(sess.user_data.priv, Staff) = 0

\* lines 46-59: the mods and mode arguments, with their defaults
profile(c, a) ==
    /\ pc[c] = "idle"
    /\ nreq < MaxRequests
    /\ nreq' = nreq + 1
    /\ LET kind == IF a.mods # <<>> /\ a.mods \notin valid_mods THEN "InvalidMods"
                   ELSE IF a.mode # <<>> /\ a.mode \notin valid_modes THEN "InvalidMode"
                   ELSE "ok"
       IN  IF kind = "ok"
           THEN /\ pc' = [pc EXCEPT ![c] = "profile_fetch"]
                /\ form' = [form EXCEPT ![c] =
                       [a EXCEPT !.mods = IF a.mods = <<>> THEN <<"v","n">> ELSE a.mods,
                                 !.mode = IF a.mode = <<>> THEN <<"s","t","d">> ELSE a.mode]]
                /\ UNCHANGED resp
           ELSE /\ resp' = Response("profile", kind, "none")
                /\ UNCHANGED <<pc, form>>
    /\ UNCHANGED <<users, stats, registration, cache, session, lastLogin>>

\* lines 61-69: the row arrives; 404 or the profile page
profile_fetched(c) ==
    /\ pc[c] = "profile_fetch"
    /\ \E userdata \in Fetch({r \in users : r.id = form[c].user}) :
        resp' = IF ProfileHidden(userdata, session[c])
                THEN Response("profile", "NotFound", "none")
                ELSE [Response("profile", "Profile", "none") EXCEPT !.user = userdata.id]
    /\ pc' = [pc EXCEPT ![c] = "idle"]
    /\ form' = [form EXCEPT ![c] = NoForm]
    /\ UNCHANGED <<nreq, users, stats, registration, cache, session, lastLogin>>

(***************************************************************************)
(* Specification                                                           *)
(***************************************************************************)
Next ==
    \E c \in Clients :
        \/ \E f \in LoginForms : login_post(c, f)
        \/ login_fetched(c)
        \/ logout(c)
        \/ \E f \in RegForms : register_post(c, f)
        \/ register_name_fetched(c)
        \/ register_email_fetched(c)
        \/ \E a \in ProfileArgs : profile(c, a)
        \/ profile_fetched(c)

Spec == Init /\ [][Next]_vars

(***************************************************************************)
(* Properties                                                              *)
(***************************************************************************)
\* the rows a login for this username can find
RowsBySafeName(username) == {r \in users : r.safe_name = get_safe_name(username)}

\* client c's login_post answers in this step, after its lookup
LoginAnswers(c) == pc[c] = "login_fetch" /\ pc'[c] = "idle"

\* client c's register_post for form f answers in this step
RegisterAnswers(c, f) ==
    \/ register_post(c, f) /\ pc'[c] = "idle"
    \/ form[c] = f /\ pc[c] \in {"reg_name", "reg_email"} /\ pc'[c] = "idle"

\* some user record has this display name / this email
NamePresent(username) == \E r \in users : r.name = username
EmailPresent(email) == \E r \in users : r.email = email

ValidLength(pw) == Len(pw) > 8 /\ Len(pw) <= 32
EnoughDistinct(pw) == Cardinality(Chars(pw)) > 3
Denylisted(pw) == Lower(pw) \in disallowed_passwords

\* C3: a register_post from an unauthenticated session, registration
\* enabled, with username, email and password passing every validator
\* answers with the please-verify page and persists exactly one new user
\* record, Verified bit unset, and one statistics record; a login for an
\* unverified account with its password then answers NotVerified and
\* leaves the session as it was.
C3_RegisterThenNotVerified ==
    [][\A c \in Clients :
        /\ \A f \in RegForms :
            ( /\ RegisterAnswers(c, f)
              /\ ~session[c].authenticated
              /\ registration
              /\ UsernameCheck(f.username) = "ok"
              /\ ~NamePresent(f.username)
              /\ email_rgx(f.email)
              /\ ~EmailPresent(f.email)
              /\ ValidLength(f.password)
              /\ EnoughDistinct(f.password)
              /\ ~Denylisted(f.password) )
            => /\ resp'.kind = "Verify"
               /\ \E r \in users' \ users :
                    /\ users' = users \cup {r}
                    /\ r.name = f.username
                    /\ r.email = f.email
                    /\ BitAnd(r.priv, Verified) = 0
                    /\ stats' = stats \cup {r.id}
        /\ ( /\ LoginAnswers(c)
             /\ \E r \in RowsBySafeName(form[c].username) :
                    /\ r.id # ReservedId
                    /\ checkpw(Md5(form[c].password), r.pw_bcrypt)
                    /\ BitAnd(r.priv, Verified) = 0 )
           => /\ resp'.kind = "NotVerified"
              /\ session' = session
      ]_vars

\* C4, as stated: a register_post whose username is an existing display
\* name, or whose email is an existing email, answers Taken and leaves the
\* users table, the stats table and the credential cache unchanged (read
\* for a request that passes the session and registration gates).
C4_TakenWhenPresent ==
    [][\A c \in Clients : \A f \in RegForms :
        ( /\ RegisterAnswers(c, f)
          /\ ~session[c].authenticated
          /\ registration
          /\ \/ NamePresent(f.username)
             \/ EmailPresent(f.email) )
        => /\ resp'.kind = "Taken"
           /\ UNCHANGED <<users, stats, cache>>
      ]_vars

\* C4, amended: from an unauthenticated session with registration enabled,
\* a register_post whose username passes the syntax, separator and
\* disallowed-name checks answers Taken when the username is an existing
\* display name, and answers Taken when the username is free and the email
\* matches the email pattern and is an existing email; every register_post
\* whose username or email is present leaves the users table, the stats
\* table and the credential cache unchanged.
C4_TakenAfterEarlierChecks ==
    [][\A c \in Clients :
        /\ ( /\ pc[c] \in {"reg_name", "reg_email"}
             /\ pc'[c] = "idle"
             /\ ~session[c].authenticated
             /\ registration
             /\ UsernameCheck(form[c].username) = "ok"
             /\ \/ NamePresent(form[c].username)
                \/ /\ email_rgx(form[c].email)
                   /\ EmailPresent(form[c].email) )
           => resp'.kind = "Taken"
        /\ ( \/ pc[c] \in {"reg_name", "reg_email"} /\ pc'[c] # pc[c]
             \/ pc[c] = "idle" /\ pc'[c] = "idle" /\ nreq' # nreq /\ resp'.op = "register" )
           => UNCHANGED <<users, stats, cache>>
      ]_vars

\* a registration was refused as taken
C4_Witness ==
    /\ resp = Response("register", "Taken", "none")
    /\ \A c \in Clients : pc[c] = "idle"

PreviousCorrect(account, password) ==
    /\ lastLogin.account = account
    /\ lastLogin.password = password
    /\ \E r \in users :
        /\ r.safe_name = account
        /\ r.id # ReservedId
        /\ checkpw(Md5(password), r.pw_bcrypt)

\* C6, as stated: when two login_post in succession name the same account
\* with its correct password, the second finds the hash in the cache, runs
\* no bcrypt verification and answers as the first did.
C6_SecondLoginHitsCache ==
    [][\A c \in Clients :
        /\ ( /\ LoginAnswers(c)
             /\ PreviousCorrect(get_safe_name(form[c].username), form[c].password) )
           => /\ lastLogin'.path = "cache"
              /\ lastLogin'.kind = lastLogin.kind
        /\ \A f \in LoginForms :
            ( /\ login_post(c, f)
              /\ session[c].authenticated
              /\ PreviousCorrect(get_safe_name(f.username), f.password) )
            => /\ lastLogin'.path = "cache"
               /\ lastLogin'.kind = lastLogin.kind
      ]_vars

\* C6, amended: when two login_post in succession, each sent from a session
\* that is not authenticated, name the same account with its correct
\* password (the account's record unchanged in between), the second finds
\* the hash in the cache, runs no bcrypt verification and answers as the
\* first did.
C6_SecondAnonymousLoginHitsCache ==
    [][\A c \in Clients :
        ( /\ LoginAnswers(c)
          /\ lastLogin.kind # "AlreadyAuthenticated"
          /\ PreviousCorrect(get_safe_name(form[c].username), form[c].password) )
        => /\ lastLogin'.path = "cache"
           /\ lastLogin'.kind = lastLogin.kind
      ]_vars

\* two successful logins to one account have answered and both sessions
\* came from them: the second went through the cache
C6_Witness ==
    /\ lastLogin.kind = "Success"
    /\ lastLogin.path = "cache"
    /\ nreq = 2
    /\ \A c \in Clients : pc[c] = "idle"
    /\ Cardinality({c \in Clients : session[c].authenticated}) = 2

\* C7: logout from a session that is not authenticated answers
\* NotAuthenticated and leaves the session as it was; logout from an
\* authenticated session removes both 'authenticated' and 'user_data', and
\* a login_post from a session without 'authenticated' is not refused as
\* already authenticated.
C7_Logout ==
    [][\A c \in Clients :
        /\ (logout(c) /\ ~session[c].authenticated) =>
            /\ resp' = Response("logout", "NotAuthenticated", "none")
            /\ session' = session
        /\ (logout(c) /\ session[c].authenticated) =>
            /\ ~session'[c].authenticated
            /\ session'[c].user_data = NoUserData
            /\ \A d \in Clients \ {c} : session'[d] = session[d]
        /\ \A f \in LoginForms :
            (login_post(c, f) /\ ~session[c].authenticated) =>
                /\ pc'[c] = "login_fetch"
                /\ resp' = resp
      ]_vars

\* after a successful login and the logout that followed it, a login_post
\* has passed the gate
C7_Witness ==
    /\ resp = Response("logout", "LoggedOut", "none")
    /\ lastLogin.kind = "Success"
    /\ nreq = 3
    /\ \A c \in Clients : ~session[c].authenticated
    /\ \E c \in Clients : pc[c] = "login_fetch"

\* C8: with valid mode and mods, the profile view answers not-found when the
\* account does not exist, or when its privilege value is below 3 and the
\* viewer is anonymous or authenticated with a snapshot lacking the Staff
\* bits; it shows the profile in every other case.
C8_ProfileVisibility ==
    [][\A c \in Clients :
        (pc[c] = "profile_fetch" /\ pc'[c] = "idle") =>
            LET account == {r \in users : r.id = form[c].user}
                viewerStaff == /\ session[c].authenticated
                               /\ BitAnd(session[c].user_data.priv, Staff) # 0
            IN  IF \/ account = {}
                   \/ \E r \in account : r.priv < 3 /\ ~viewerStaff
                THEN resp'.kind = "NotFound"
                ELSE /\ resp'.kind = "Profile"
                     /\ resp'.user = form[c].user
      ]_vars

\* the profile of an account below the threshold was shown (to a staff viewer)
C8_Witness ==
    /\ resp.kind = "Profile"
    /\ \E r \in users : r.id = resp.user /\ r.priv < 3
    /\ \E c \in Clients :
        session[c].authenticated /\ BitAnd(session[c].user_data.priv, Staff) # 0

\* C9: the password check of register_post answers TooShortOrLong unless
\* 8 < length <= 32, else TooSimple unless more than 3 distinct characters,
\* else Denylisted if the lowercased password is disallowed, and otherwise
\* raises no error and goes on to the write phase (the please-verify page).
C9_PasswordClassification ==
    [][\A c \in Clients :
        ( /\ pc[c] = "reg_email"
          /\ pc'[c] = "idle"
          /\ ~EmailPresent(form[c].email) )
        => resp'.kind =
            IF ~ValidLength(form[c].password) THEN "TooShortOrLong"
            ELSE IF ~EnoughDistinct(form[c].password) THEN "TooSimple"
            ELSE IF Denylisted(form[c].password) THEN "Denylisted"
            ELSE "Verify"
      ]_vars

\* C10: every cache entry maps a hash to a digest that bcrypt verifies
\* against it, so for every account and password the cache comparison and
\* the bcrypt verification agree; a login that answers BadPassword leaves
\* the cache as it was.
C10_CacheSound ==
    /\ [](\A h \in DOMAIN cache :
            /\ checkpw(cache[h], h)
            /\ \A f \in LoginForms :
                (Md5(f.password) = cache[h]) <=> checkpw(Md5(f.password), h))
    /\ [][\A c \in Clients :
            (LoginAnswers(c) /\ resp'.kind = "BadPassword") => cache' = cache
       ]_vars

\* a wrong password was rejected by comparison with a cached digest
C10_Witness ==
    /\ lastLogin.kind = "BadPassword"
    /\ lastLogin.path = "cache"
    /\ \E r \in users : r.safe_name = lastLogin.account /\ r.pw_bcrypt \in DOMAIN cache

=============================================================================
